---- MODULE Spec2Model ----
(***************************************************************************)
(* Model of the call-graph relationship pipeline of                        *)
(* call_graph_processor.py: name resolution, per-file extraction and       *)
(* listing, the per-directory combined listing and the master listing.     *)
(*                                                                         *)
(* Text is modelled as a sequence of atoms.  In node identifiers, labels   *)
(* and relationship strings every atom is one character.  The fixed text   *)
(* the program writes into headers is kept as multi-character atoms        *)
(* between single-character "#" and " " atoms, so that the tests the       *)
(* readers apply (startswith('#'), strip()) act on it as on the real text. *)
(* A file or directory name is a sequence of name tokens ("f", "_icgraph", *)
(* ".dot"), a path is a sequence of names.                                 *)
(***************************************************************************)
EXTENDS Integers, Sequences, FiniteSets, TLC

VARIABLES
    node,           \* NameResolver: the node handed to extract_function_name
    named,          \* NameResolver: TRUE once extract_function_name returned
    name,           \* NameResolver: the string it returned
    docs,           \* the .dot documents on disk: path -> [parses, graph]
    dirs,           \* the directories on disk
    fs,             \* the files the program writes: path -> sequence of lines
    pc,             \* main(): "idle", "process", "combine" or "master"
    directory,      \* main(): the directory it was started on
    dot_files,      \* main(): what find_dot_files returned
    todo,           \* main(): the dot files the loop has not processed yet
    runs,           \* number of program runs started so far
    relationships,  \* the list extract_relationships_from_edges returned last
    last,           \* the handler that returned last: [op, arg, ret]
    succeeded,      \* main(): the dot files process_dot_file returned a path for
    previous        \* the run that ended last: [directory, succeeded, fs, times],
                    \* the directory main() ran on (None for the master step run
                    \* on its own), the disk it left, and how many times in a row
                    \* a run on that directory with those successes has ended

resolverVars == <<node, named, name>>

diskVars == <<docs, dirs, fs>>

mainVars == <<pc, directory, dot_files, todo, runs>>

runVars == <<succeeded, previous>>

vars == <<node, named, name, docs, dirs, fs, pc, directory, dot_files, todo, runs,
          relationships, last, succeeded, previous>>

(***************************************************************************)
(* Characters                                                              *)
(***************************************************************************)
BS == "\\"
QUOTE == "\""

\* the two Dot line-break markers, backslash-l and backslash-n
MARK_L == <<BS, "l">>
MARK_N == <<BS, "n">>

\* [a-zA-Z_] and [a-zA-Z0-9_] over the characters the model uses
Letters == {"a", "b", "f", "g", "l", "n", "x", "N"}
Digits == {"1", "2"}
IsIdentStart(c) == c \in Letters \cup {"_"}
IsIdentChar(c) == c \in Letters \cup Digits \cup {"_"}

\* str.strip(): the whitespace characters of the model
IsSpace(c) == c = " "

(***************************************************************************)
(* Python string operations                                                *)
(***************************************************************************)
\* s[i:] for a 1-based i
DropTo(s, i) == SubSeq(s, i, Len(s))

\* s.find(pat) as a 1-based index, 0 when pat does not occur
Find(s, pat) ==
    LET hits == {i \in 1..(Len(s) - Len(pat) + 1) : SubSeq(s, i, i + Len(pat) - 1) = pat}
    IN IF hits = {} THEN 0 ELSE CHOOSE i \in hits : \A j \in hits : i <= j

\* pat in s
Contains(s, pat) == Find(s, pat) # 0

\* s.split(pat)[0]
SplitFirst(s, pat) == IF Contains(s, pat) THEN SubSeq(s, 1, Find(s, pat) - 1) ELSE s

\* s.strip('"')
RECURSIVE LStripQuote(_)
LStripQuote(s) == IF s # <<>> /\ Head(s) = QUOTE THEN LStripQuote(Tail(s)) ELSE s

RECURSIVE RStripQuote(_)
RStripQuote(s) ==
    IF s # <<>> /\ s[Len(s)] = QUOTE THEN RStripQuote(SubSeq(s, 1, Len(s) - 1)) ELSE s

strip_quote(s) == RStripQuote(LStripQuote(s))

\* the least index >= from at which character c occurs in s, 0 when there is none
NextChar(s, c, from) ==
    LET hits == {i \in from..Len(s) : s[i] = c}
    IN IF hits = {} THEN 0 ELSE CHOOSE i \in hits : \A j \in hits : i <= j

(***************************************************************************)
(* NameResolver: extract_function_name                                     *)
(***************************************************************************)
\* lines 79-82: cut the label at backslash-l, then cut what is left at backslash-n
trim_line_breaks_no_n(node_label) ==
    IF Contains(node_label, MARK_L) THEN SplitFirst(node_label, MARK_L) ELSE node_label

trim_line_breaks(node_label) ==
    LET l1 == IF Contains(node_label, MARK_L) THEN SplitFirst(node_label, MARK_L) ELSE node_label
    IN IF Contains(l1, MARK_N) THEN SplitFirst(l1, MARK_N) ELSE l1

\* re.search(r'<[^>]*>([^<]+)</[^>]*>', s) tried at start position i:
\* the opening tag ends at the first '>' after i, group 1 runs to the first '<'
\* after it, which must open "</", and a '>' must follow
HtmlMatchAt(s, i) ==
    LET j == NextChar(s, ">", i + 1)
        k == IF j = 0 THEN 0 ELSE NextChar(s, "<", j + 1)
        m == IF k = 0 THEN 0 ELSE NextChar(s, ">", k + 2)
    IN [found |-> /\ s[i] = "<"
                  /\ j # 0
                  /\ k # 0
                  /\ k > j + 1
                  /\ k + 1 <= Len(s)
                  /\ s[k + 1] = "/"
                  /\ m # 0,
        lo |-> j + 1,
        hi |-> k - 1]

\* the leftmost start position at which the pattern matches, 0 when none does
HtmlSearch(s) ==
    LET starts == {i \in 1..Len(s) : HtmlMatchAt(s, i).found}
    IN IF starts = {} THEN 0 ELSE CHOOSE i \in starts : \A j \in starts : i <= j

\* lines 85-92: the HTML-like label rule
html_label_name_whole_match(node_label) ==
    IF Contains(node_label, <<"<">>) /\ Contains(node_label, <<">">>) /\ HtmlSearch(node_label) # 0
    THEN LET i == HtmlSearch(node_label)
             k == HtmlMatchAt(node_label, i).hi + 1
         IN SubSeq(node_label, i, NextChar(node_label, ">", k + 2))
    ELSE node_label

html_label_name(node_label) ==
    IF Contains(node_label, <<"<">>) /\ Contains(node_label, <<">">>)
    THEN LET i == HtmlSearch(node_label)
         IN IF i # 0
            THEN SubSeq(node_label, HtmlMatchAt(node_label, i).lo, HtmlMatchAt(node_label, i).hi)
            ELSE node_label
    ELSE node_label

\* lines 97-102: re.search(r'[a-zA-Z_][a-zA-Z0-9_]*', node_name), else the name itself
RECURSIVE IdentEnd(_, _)
IdentEnd(s, i) == IF i < Len(s) /\ IsIdentChar(s[i + 1]) THEN IdentEnd(s, i + 1) ELSE i

ident_name(node_name) ==
    LET starts == {i \in 1..Len(node_name) : IsIdentStart(node_name[i])}
    IN IF starts = {}
       THEN node_name
       ELSE LET i == CHOOSE i \in starts : \A j \in starts : i <= j
            IN SubSeq(node_name, i, IdentEnd(node_name, i))

\* a node as pydot hands it over: name and label as written in the document,
\* quotes included; label <<>> stands for get_label() returning None or ''
extract_function_name(node_obj) ==
    LET node_name == strip_quote(node_obj.name)
        node_label == IF node_obj.label # <<>> THEN strip_quote(node_obj.label) ELSE <<>>
    IN IF node_label # <<>>
       THEN html_label_name(trim_line_breaks(node_label))
       ELSE ident_name(node_name)

(***************************************************************************)
(* Text: ordering, formatting, sorting                                     *)
(***************************************************************************)
\* code point of a character, for the comparison sorted() makes
Ord(c) ==
    CASE c = " " -> 32 [] c = QUOTE -> 34 [] c = "#" -> 35 [] c = "-" -> 45
      [] c = "/" -> 47 [] c = "1" -> 49 [] c = "2" -> 50 [] c = "<" -> 60
      [] c = ">" -> 62 [] c = "N" -> 78 [] c = BS -> 92 [] c = "_" -> 95
      [] c = "a" -> 97 [] c = "b" -> 98 [] c = "f" -> 102 [] c = "g" -> 103
      [] c = "l" -> 108 [] c = "n" -> 110 [] c = "x" -> 120 [] c = "z" -> 122
      [] OTHER -> 0

\* s < t for two Python strings
RECURSIVE StrLess(_, _)
StrLess(s, t) ==
    IF t = <<>> THEN FALSE
    ELSE IF s = <<>> THEN TRUE
    ELSE IF Ord(Head(s)) # Ord(Head(t)) THEN Ord(Head(s)) < Ord(Head(t))
    ELSE StrLess(Tail(s), Tail(t))

\* sorted(xs) for a list of strings, duplicates kept
RECURSIVE InsertSorted(_, _)
InsertSorted(x, xs) ==
    IF xs = <<>> THEN <<x>>
    ELSE IF StrLess(Head(xs), x) THEN <<Head(xs)>> \o InsertSorted(x, Tail(xs))
    ELSE <<x>> \o xs

RECURSIVE sorted(_)
sorted(xs) == IF xs = <<>> THEN <<>> ELSE InsertSorted(Head(xs), sorted(Tail(xs)))

\* sorted(S) for a set of strings
RECURSIVE sorted_set(_)
sorted_set(S) ==
    IF S = {} THEN <<>>
    ELSE LET x == CHOOSE x \in S : \A y \in S : ~StrLess(y, x)
         IN <<x>> \o sorted_set(S \ {x})

\* str(n) for n >= 0
DigitChars == <<"0", "1", "2", "3", "4", "5", "6", "7", "8", "9">>

RECURSIVE str(_)
str(n) == IF n < 10 THEN <<DigitChars[n + 1]>> ELSE str(n \div 10) \o <<DigitChars[(n % 10) + 1]>>

\* line.strip()
RECURSIVE LStrip(_)
LStrip(s) == IF s # <<>> /\ IsSpace(Head(s)) THEN LStrip(Tail(s)) ELSE s

RECURSIVE RStrip(_)
RStrip(s) == IF s # <<>> /\ IsSpace(s[Len(s)]) THEN RStrip(SubSeq(s, 1, Len(s) - 1)) ELSE s

strip(s) == RStrip(LStrip(s))

(***************************************************************************)
(* Paths                                                                   *)
(***************************************************************************)
DOT_EXT == ".dot"
PNG_EXT == ".png"
REL_SUFFIX == "_relationships.txt"
DOT_FILES_DIR == <<"dot_files">>
COMBINED_NAME == <<"all_function", REL_SUFFIX>>
MASTER_NAME == <<"master_function", REL_SUFFIX>>
CALLEE_CALLER_DIR == <<"callee_caller", "_graph">>
CALLER_CALLEE_DIR == <<"caller_callee", "_graph">>
None == <<>>

\* os.path.dirname, os.path.basename, os.path.join
dirname(path) == IF path = <<>> THEN <<>> ELSE SubSeq(path, 1, Len(path) - 1)
basename(path) == IF path = <<>> THEN <<>> ELSE path[Len(path)]
join(dir, file) == Append(dir, file)

\* os.path.splitext(name)[0] and name.endswith(suffix) on a file name
Extensions == {DOT_EXT, PNG_EXT}
splitext0(file) ==
    IF Len(file) > 1 /\ file[Len(file)] \in Extensions
    THEN SubSeq(file, 1, Len(file) - 1)
    ELSE file
endswith(file, suffix) == file # <<>> /\ file[Len(file)] = suffix

\* str.lower() on a name
LowerToken(t) == IF t = "Callee_Caller" THEN "callee_caller" ELSE t
lower(file) == [i \in 1..Len(file) |-> LowerToken(file[i])]

\* token in name, token in path
NameContains(file, token) == \E i \in 1..Len(file) : file[i] = token
PathContains(path, token) == \E i \in 1..Len(path) : NameContains(path[i], token)

\* path is strictly beneath dir
Beneath(path, dir) == Len(path) > Len(dir) /\ SubSeq(path, 1, Len(dir)) = dir

\* lines 107-126
get_output_directory(dot_file_path) ==
    LET dir_path == dirname(dot_file_path)
        dir_name == basename(dir_path)
    IN IF dir_name = DOT_FILES_DIR THEN dirname(dir_path) ELSE dir_path

\* the combined listing in the directory main() was started on
get_output_dir_for_combined_file_same_dir(dir) == dir

\* lines 318-330
get_output_dir_for_combined_file(dir) ==
    IF basename(dir) = DOT_FILES_DIR THEN dirname(dir) ELSE dir

\* lines 222-223, 287-289: where the listing of a dot file lives
relationship_file_path(dot_file_path) ==
    join(get_output_directory(dot_file_path),
         Append(splitext0(basename(dot_file_path)), REL_SUFFIX))

(***************************************************************************)
(* RelationshipExtractor                                                   *)
(***************************************************************************)
ARROW == <<" ", "-", ">", " ">>

\* f"{a} -> {b}"
Relationship(a, b) == a \o ARROW \o b

\* dict.get(key, default)
DictGet(d, key, default) == IF key \in DOMAIN d THEN d[key] ELSE default

\* lines 138-143: later nodes overwrite earlier ones of the same identifier
RECURSIVE MappingFrom(_, _)
MappingFrom(nodes, acc) ==
    IF nodes = <<>> THEN acc
    ELSE LET node_id == strip_quote(Head(nodes).name)
             function_name == extract_function_name(Head(nodes))
         IN MappingFrom(Tail(nodes),
                [k \in DOMAIN acc \cup {node_id} |->
                    IF k = node_id THEN function_name ELSE acc[k]])

create_node_to_function_mapping(graph) == MappingFrom(graph.nodes, <<>>)

\* lines 163-174: one edge
edge_relationship_never_inverted(edge, node_to_function, is_icgraph) ==
    Relationship(DictGet(node_to_function, strip_quote(edge.src), strip_quote(edge.src)),
                 DictGet(node_to_function, strip_quote(edge.dst), strip_quote(edge.dst)))

edge_relationship_resolves_dangling(edge, node_to_function, is_icgraph) ==
    LET source_id == strip_quote(edge.src)
        dest_id == strip_quote(edge.dst)
        source_func == DictGet(node_to_function, source_id, ident_name(source_id))
        dest_func == DictGet(node_to_function, dest_id, ident_name(dest_id))
    IN IF is_icgraph
       THEN Relationship(dest_func, source_func)
       ELSE Relationship(source_func, dest_func)

edge_relationship(edge, node_to_function, is_icgraph) ==
    LET source_id == strip_quote(edge.src)
        dest_id == strip_quote(edge.dst)
        source_func == DictGet(node_to_function, source_id, source_id)
        dest_func == DictGet(node_to_function, dest_id, dest_id)
    IN IF is_icgraph
       THEN Relationship(dest_func, source_func)
       ELSE Relationship(source_func, dest_func)

\* lines 161-176
RECURSIVE RelationshipsFrom(_, _, _)
RelationshipsFrom(edges, node_to_function, is_icgraph) ==
    IF edges = <<>> THEN <<>>
    ELSE <<edge_relationship(Head(edges), node_to_function, is_icgraph)>>
         \o RelationshipsFrom(Tail(edges), node_to_function, is_icgraph)

extract_relationships_from_edges(graph, node_to_function, is_icgraph) ==
    RelationshipsFrom(graph.edges, node_to_function, is_icgraph)

(***************************************************************************)
(* RelationshipSink                                                        *)
(***************************************************************************)
FORMAT_CALLEE_CALLER == <<"#", " ", "Format: callee -> caller">>
FORMAT_CALLER_CALLEE == <<"#", " ", "Format: caller -> callee">>
BLANK == <<>>

\* the relationships written in the order of the edges
relationships_file_text_edge_order(rels, dot_file_path, is_icgraph) ==
    << <<"#", " ", "Function call relationships from", " ">> \o basename(dot_file_path),
       <<"#", " ", "Total relationships:", " ">> \o str(Len(rels)),
       IF is_icgraph THEN FORMAT_CALLEE_CALLER ELSE FORMAT_CALLER_CALLEE,
       BLANK >>
    \o rels

\* lines 193-204: the text of a per-file listing
relationships_file_text(rels, dot_file_path, is_icgraph) ==
    << <<"#", " ", "Function call relationships from", " ">> \o basename(dot_file_path),
       <<"#", " ", "Total relationships:", " ">> \o str(Len(rels)),
       IF is_icgraph THEN FORMAT_CALLEE_CALLER ELSE FORMAT_CALLER_CALLEE,
       BLANK >>
    \o sorted(rels)

\* open(path, 'a'): the new text after what the file held
WriteFile_appending(files, path, text) ==
    [p \in DOMAIN files \cup {path} |->
        IF p = path
        THEN (IF path \in DOMAIN files THEN files[path] \o text ELSE text)
        ELSE files[p]]

\* open(path, 'w') and the writes: the file holds exactly the new text
WriteFile(files, path, text) ==
    [p \in DOMAIN files \cup {path} |-> IF p = path THEN text ELSE files[p]]

\* lines 217-238: [fs, relationships, ret] of generate_function_relationships_text
generate_function_relationships_text(files, graph, dot_file_path) ==
    LET output_path == relationship_file_path(dot_file_path)
        node_to_function == create_node_to_function_mapping(graph)
        is_icgraph == PathContains(dot_file_path, "_icgraph")
        rels == extract_relationships_from_edges(graph, node_to_function, is_icgraph)
    IN [fs |-> WriteFile(files, output_path,
                         relationships_file_text(rels, dot_file_path, is_icgraph)),
        relationships |-> rels,
        ret |-> output_path]

(***************************************************************************)
(* Directory scans and readers                                             *)
(***************************************************************************)
\* lines 253-269: the dot_files subdirectory alone when there is one (listdir),
\* otherwise everything beneath the directory (os.walk)
find_dot_files(documents, directories, dir) ==
    LET dot_files_subdir == join(dir, DOT_FILES_DIR)
    IN IF dot_files_subdir \in directories
       THEN {p \in DOMAIN documents :
                dirname(p) = dot_files_subdir /\ endswith(basename(p), DOT_EXT)}
       ELSE {p \in DOMAIN documents : Beneath(p, dir) /\ endswith(basename(p), DOT_EXT)}

\* lines 281-294
find_relationship_files(files, found) ==
    {relationship_file_path(d) : d \in found} \cap DOMAIN files

\* lines 309-314 and 390-395: the loop over the lines of one listing
is_skipped(line) == (line # <<>> /\ Head(line) = "#") \/ strip(line) = <<>>

relationships_in_text(text) ==
    {strip(text[i]) : i \in {j \in 1..Len(text) : ~is_skipped(text[j])}}

\* lines 306-316
collect_unique_relationships(files, rel_files) ==
    UNION {relationships_in_text(files[f]) : f \in rel_files}

\* lines 387-396
read_relationships_from_file(files, file_path) ==
    IF file_path \in DOMAIN files THEN relationships_in_text(files[file_path]) ELSE {}

\* lines 409-416
collect_relationships_from_directory(files, dir) ==
    UNION {read_relationships_from_file(files, f) :
            f \in {p \in DOMAIN files :
                    /\ Beneath(p, dir)
                    /\ endswith(basename(p), REL_SUFFIX)
                    /\ basename(p) # COMBINED_NAME}}

(***************************************************************************)
(* DirectoryAggregator                                                     *)
(***************************************************************************)
\* lines 358-369: the text of the combined listing
combined_file_text(all_relationships, output_dir, is_callee_caller) ==
    << <<"#", " ", "Combined function call relationships from all dot files in", " ">>
            \o basename(output_dir),
       <<"#", " ", "Total unique relationships:", " ">> \o str(Cardinality(all_relationships)),
       IF is_callee_caller THEN FORMAT_CALLEE_CALLER ELSE FORMAT_CALLER_CALLEE,
       BLANK >>
    \o sorted_set(all_relationships)

\* lines 343-372: [fs, ret] of generate_combined_relationships_file
generate_combined_relationships_file(files, dir, found) ==
    LET is_callee_caller == NameContains(lower(basename(dir)), "callee_caller")
        output_dir == get_output_dir_for_combined_file(dir)
        output_path == join(output_dir, COMBINED_NAME)
        rel_files == find_relationship_files(files, found)
        all_relationships == collect_unique_relationships(files, rel_files)
    IN [fs |-> WriteFile(files, output_path,
                         combined_file_text(all_relationships, output_dir, is_callee_caller)),
        ret |-> output_path]

(***************************************************************************)
(* MasterAggregator                                                        *)
(***************************************************************************)
BANNER == <<"#", " ", "==========================================================">>
TITLE_CALLEE_CALLER == <<"#", " ", "CALLEE -> CALLER RELATIONSHIPS">>
TITLE_CALLER_CALLEE == <<"#", " ", "CALLER -> CALLEE RELATIONSHIPS">>
TITLE_STATISTICS == <<"#", " ", "STATISTICS">>

\* lines 433-461: the text of the master listing
master_file_text_forward_first(base_directory, callee_caller, caller_callee) ==
    << <<"#", " ", "MASTER FUNCTION RELATIONSHIP FILE">>,
       <<"#", " ", "Generated on:", " ">> \o basename(base_directory),
       BLANK,
       BANNER,
       TITLE_CALLER_CALLEE,
       <<"#", " ", "Total:", " ">> \o str(Cardinality(caller_callee)),
       BANNER,
       BLANK >>
    \o sorted_set(caller_callee)
    \o << BLANK, BLANK,
          BANNER,
          TITLE_CALLEE_CALLER,
          <<"#", " ", "Total:", " ">> \o str(Cardinality(callee_caller)),
          BANNER,
          BLANK >>
    \o sorted_set(callee_caller)
    \o << BLANK, BLANK,
          BANNER,
          TITLE_STATISTICS,
          BANNER,
          <<"#", " ", "Total callee->caller relationships:", " ">>
                \o str(Cardinality(callee_caller)),
          <<"#", " ", "Total caller->callee relationships:", " ">>
                \o str(Cardinality(caller_callee)),
          <<"#", " ", "Total relationships:", " ">>
                \o str(Cardinality(callee_caller) + Cardinality(caller_callee)) >>

master_file_text(base_directory, callee_caller, caller_callee) ==
    << <<"#", " ", "MASTER FUNCTION RELATIONSHIP FILE">>,
       <<"#", " ", "Generated on:", " ">> \o basename(base_directory),
       BLANK,
       BANNER,
       TITLE_CALLEE_CALLER,
       <<"#", " ", "Total:", " ">> \o str(Cardinality(callee_caller)),
       BANNER,
       BLANK >>
    \o sorted_set(callee_caller)
    \o << BLANK, BLANK,
          BANNER,
          TITLE_CALLER_CALLEE,
          <<"#", " ", "Total:", " ">> \o str(Cardinality(caller_callee)),
          BANNER,
          BLANK >>
    \o sorted_set(caller_callee)
    \o << BLANK, BLANK,
          BANNER,
          TITLE_STATISTICS,
          BANNER,
          <<"#", " ", "Total callee->caller relationships:", " ">>
                \o str(Cardinality(callee_caller)),
          <<"#", " ", "Total caller->callee relationships:", " ">>
                \o str(Cardinality(caller_callee)),
          <<"#", " ", "Total relationships:", " ">>
                \o str(Cardinality(callee_caller) + Cardinality(caller_callee)) >>

\* lines 496-511: the relationships of one category directory
category_relationships(files, directories, category_dir) ==
    LET combined == join(category_dir, COMBINED_NAME)
    IN IF category_dir \in directories /\ combined \in DOMAIN files
       THEN read_relationships_from_file(files, combined)
       ELSE IF category_dir \in directories
            THEN collect_relationships_from_directory(files, category_dir)
            ELSE {}

\* lines 474-517: [fs, ret] of generate_master_relationships_file
generate_master_relationships_file_no_precondition(files, directories, base_directory) ==
    LET output_path == join(dirname(base_directory), MASTER_NAME)
    IN [fs |-> WriteFile(files, output_path,
                  master_file_text(base_directory,
                      category_relationships(files, directories,
                                             join(base_directory, CALLEE_CALLER_DIR)),
                      category_relationships(files, directories,
                                             join(base_directory, CALLER_CALLEE_DIR)))),
        ret |-> output_path]

generate_master_relationships_file(files, directories, base_directory) ==
    LET output_path == join(dirname(base_directory), MASTER_NAME)
        callee_caller_dir == join(base_directory, CALLEE_CALLER_DIR)
        caller_callee_dir == join(base_directory, CALLER_CALLEE_DIR)
    IN IF callee_caller_dir \notin directories /\ caller_callee_dir \notin directories
       THEN [fs |-> files, ret |-> None]
       ELSE [fs |-> WriteFile(files, output_path,
                      master_file_text(base_directory,
                          category_relationships(files, directories, callee_caller_dir),
                          category_relationships(files, directories, caller_callee_dir))),
             ret |-> output_path]

(***************************************************************************)
(* process_dot_file                                                        *)
(***************************************************************************)
PNG_TEXT == << <<"PNG">> >>

\* lines 16-54: [fs, relationships, ret]; rendered is whether write_png succeeded.
\* A document without a graph, or a failed rendering, leaves the disk as it was.
process_dot_file(files, documents, rels, dot_file_path, rendered) ==
    IF ~documents[dot_file_path].parses \/ ~rendered
    THEN [fs |-> files, relationships |-> rels, ret |-> None]
    ELSE LET output_path ==
                 join(dirname(dot_file_path),
                      Append(splitext0(basename(dot_file_path)), PNG_EXT))
             text == generate_function_relationships_text(
                         WriteFile(files, output_path, PNG_TEXT),
                         documents[dot_file_path].graph, dot_file_path)
         IN [fs |-> text.fs, relationships |-> text.relationships, ret |-> output_path]

(***************************************************************************)
(* The project on disk                                                     *)
(***************************************************************************)
ROOT == << <<"proj">> >>
CC_DIR == join(ROOT, CALLEE_CALLER_DIR)
CE_DIR == join(ROOT, CALLER_CALLEE_DIR)

\* the dot documents a project may hold
DOT_F_IC == join(join(CC_DIR, DOT_FILES_DIR), <<"f", "_icgraph", DOT_EXT>>)
DOT_G_IC == join(join(CC_DIR, DOT_FILES_DIR), <<"g", "_icgraph", DOT_EXT>>)
DOT_F_C == join(join(CE_DIR, DOT_FILES_DIR), <<"f", "_cgraph", DOT_EXT>>)
DOT_H_C == join(CE_DIR, <<"h", "_cgraph", DOT_EXT>>)

DotUniverse == {DOT_F_IC, DOT_G_IC, DOT_F_C, DOT_H_C}

Quoted(s) == <<QUOTE>> \o s \o <<QUOTE>>
N1 == <<"N", "1">>
N2 == <<"N", "2">>
N3 == <<"N", "1", "2">>
Edge(s, d) == [src |-> s, dst |-> d]

\* f calls g
GRAPH_F_IC ==
    [nodes |-> << [name |-> N1, label |-> Quoted(<<"f">>)],
                  [name |-> N2, label |-> Quoted(<<"g">>)] >>,
     edges |-> << Edge(N1, N2) >>]

\* the same call seen from g, and a node whose label starts with '#'
GRAPH_G_IC ==
    [nodes |-> << [name |-> N1, label |-> Quoted(<<"g">>)],
                  [name |-> N2, label |-> Quoted(<<"f">>)],
                  [name |-> N3, label |-> Quoted(<<"#", "x">>)] >>,
     edges |-> << Edge(N2, N1), Edge(N2, N3) >>]

\* the same call drawn twice
GRAPH_F_C ==
    [nodes |-> << [name |-> N1, label |-> Quoted(<<"f">>)],
                  [name |-> N2, label |-> Quoted(<<"g">>)] >>,
     edges |-> << Edge(N1, N2), Edge(N1, N2) >>]

\* a label with a leading blank, an unlabelled node, an edge to an identifier without a node
GRAPH_H_C ==
    [nodes |-> << [name |-> N1, label |-> Quoted(<<" ", "a">>)],
                  [name |-> <<"b">>, label |-> <<>>] >>,
     edges |-> << Edge(N1, <<"b">>), Edge(<<"b">>, N2) >>]

GraphOf(p) ==
    CASE p = DOT_F_IC -> GRAPH_F_IC
      [] p = DOT_G_IC -> GRAPH_G_IC
      [] p = DOT_F_C -> GRAPH_F_C
      [] OTHER -> GRAPH_H_C

\* every directory above a path
Ancestors(path) == {SubSeq(path, 1, k) : k \in 1..(Len(path) - 1)}

\* the directories the program is started on, and the number of starts explored
RunDirs == {ROOT, CC_DIR, CE_DIR}
MaxRuns == 2

NoHandler == [op |-> "none", arg |-> None, ret |-> None]

InitIdleResolver ==
    /\ node = [name |-> N1, label |-> <<>>]
    /\ named = FALSE
    /\ name = <<>>

InitIdleMain ==
    /\ pc = "idle"
    /\ directory = None
    /\ dot_files = {}
    /\ todo = {}
    /\ runs = 0
    /\ relationships = <<>>
    /\ last = NoHandler
    /\ succeeded = {}
    /\ previous = [directory |-> None, succeeded |-> {}, fs |-> <<>>, times |-> 0]

Init ==
    /\ InitIdleResolver
    /\ InitIdleMain
    /\ \E present \in SUBSET DotUniverse, extra \in SUBSET {CC_DIR, CE_DIR},
          broken \in SUBSET {DOT_F_IC} :
          /\ broken \subseteq present
          /\ docs = [p \in present |-> [parses |-> p \notin broken, graph |-> GraphOf(p)]]
          /\ dirs = {ROOT} \cup extra \cup UNION {Ancestors(p) : p \in present}
    /\ fs = <<>>

(***************************************************************************)
(* main, lines 522-553, and the master step of setup_and_run               *)
(***************************************************************************)
\* a run on directory d in which process_dot_file succeeded for the files ok
\* repeats the run that ended last
RepeatsPrevious(d, ok) ==
    previous.times > 0 /\ previous.directory = d /\ previous.succeeded = ok

RunEnded(d, ok, files) ==
    [directory |-> d, succeeded |-> ok, fs |-> files,
     times |-> IF RepeatsPrevious(d, ok) THEN previous.times + 1 ELSE 1]

\* lines 532-543: find the dot files, return when there are none
Start(d) ==
    /\ pc = "idle"
    /\ runs < MaxRuns
    /\ d \in dirs
    /\ runs' = runs + 1
    /\ \E found \in {find_dot_files(docs, dirs, d)} :
          /\ pc' = IF found = {} THEN "idle" ELSE "process"
          /\ directory' = d
          /\ dot_files' = found
          /\ todo' = found
    /\ succeeded' = {}
    /\ UNCHANGED <<resolverVars, diskVars, relationships, last, previous>>

\* lines 264-267: os.walk is top-down, the files of a directory are listed
\* before the files of the directories beneath it; files of one directory
\* (os.listdir) and of directories side by side come in any order
WalkedBefore(g, f) == Beneath(dirname(f), dirname(g))

\* lines 546-547: one turn of the loop, in the order the scan listed the files
ProcessDotFile(f) ==
    /\ pc = "process"
    /\ f \in todo
    /\ \A g \in todo : ~WalkedBefore(g, f)
    /\ \E rendered \in BOOLEAN :
          \E r \in {process_dot_file(fs, docs, relationships, f, rendered)} :
             /\ fs' = r.fs
             /\ relationships' = r.relationships
             /\ last' = [op |-> "process", arg |-> f, ret |-> r.ret]
             /\ succeeded' = IF r.ret # None THEN succeeded \cup {f} ELSE succeeded
    /\ todo' = todo \ {f}
    /\ pc' = IF todo' = {} THEN "combine" ELSE "process"
    /\ UNCHANGED <<resolverVars, docs, dirs, directory, dot_files, runs, previous>>

\* line 550
Combine ==
    /\ pc = "combine"
    /\ \E r \in {generate_combined_relationships_file(fs, directory, dot_files)} :
          /\ fs' = r.fs
          /\ last' = [op |-> "combine", arg |-> directory, ret |-> r.ret]
    /\ pc' = "master"
    /\ UNCHANGED <<resolverVars, docs, dirs, directory, dot_files, todo, runs, relationships,
                   runVars>>

\* line 553
Master ==
    /\ pc = "master"
    /\ \E r \in {generate_master_relationships_file(fs, dirs, directory)} :
          /\ fs' = r.fs
          /\ last' = [op |-> "master", arg |-> directory, ret |-> r.ret]
    /\ previous' = RunEnded(directory, succeeded, fs')
    /\ pc' = "idle"
    /\ UNCHANGED <<resolverVars, docs, dirs, directory, dot_files, todo, runs, relationships,
                   succeeded>>

\* setup_and_run.py lines 164-171, 194: generate_master_relationships_file(dot_folder)
MasterOnly ==
    /\ pc = "idle"
    /\ runs < MaxRuns
    /\ runs' = runs + 1
    /\ \E r \in {generate_master_relationships_file(fs, dirs, ROOT)} :
          /\ fs' = r.fs
          /\ last' = [op |-> "master", arg |-> ROOT, ret |-> r.ret]
    /\ previous' = RunEnded(None, {}, fs')
    /\ UNCHANGED <<resolverVars, docs, dirs, pc, directory, dot_files, todo, relationships,
                   succeeded>>

Next ==
    \/ \E d \in RunDirs : Start(d)
    \/ \E f \in DotUniverse : ProcessDotFile(f)
    \/ Combine
    \/ Master
    \/ MasterOnly

Spec == Init /\ [][Next]_vars

(***************************************************************************)
(* A project with the folder of all function graphs, a graph named         *)
(* all_function.dot, and a graph left directly in a category directory     *)
(***************************************************************************)
FUNCTION_GRAPHS_DIR == join(ROOT, <<"function_graphs">>)
CE_DOT_FILES == join(CE_DIR, DOT_FILES_DIR)

DOT_ALL == join(FUNCTION_GRAPHS_DIR, <<"all_function", DOT_EXT>>)
DOT_F_FG == join(FUNCTION_GRAPHS_DIR, <<"f", "_cgraph", DOT_EXT>>)
DOT_F_C_TOP == join(CE_DIR, <<"f", "_cgraph", DOT_EXT>>)

TreeUniverse == {DOT_ALL, DOT_F_FG, DOT_F_C, DOT_F_C_TOP}

\* a calls b
GRAPH_ALL ==
    [nodes |-> << [name |-> <<"a">>, label |-> <<>>], [name |-> <<"b">>, label |-> <<>>] >>,
     edges |-> << Edge(<<"a">>, <<"b">>) >>]

\* an older drawing of f: f calls x
GRAPH_F_C_TOP ==
    [nodes |-> << [name |-> N1, label |-> Quoted(<<"f">>)],
                  [name |-> N2, label |-> Quoted(<<"x">>)] >>,
     edges |-> << Edge(N1, N2) >>]

TreeGraphOf(p) ==
    CASE p = DOT_ALL -> GRAPH_ALL
      [] p = DOT_F_C_TOP -> GRAPH_F_C_TOP
      [] OTHER -> GRAPH_F_C

TreeRunDirs == {ROOT, FUNCTION_GRAPHS_DIR, CE_DIR, CE_DOT_FILES}

InitTree ==
    /\ InitIdleResolver
    /\ InitIdleMain
    /\ \E present \in SUBSET TreeUniverse :
          /\ docs = [p \in present |-> [parses |-> TRUE, graph |-> TreeGraphOf(p)]]
          /\ dirs = {ROOT} \cup UNION {Ancestors(p) : p \in present}
    /\ fs = <<>>

NextTree ==
    \/ \E d \in TreeRunDirs : Start(d)
    \/ \E f \in TreeUniverse : ProcessDotFile(f)
    \/ Combine
    \/ Master
    \/ MasterOnly

SpecTree == InitTree /\ [][NextTree]_vars

(***************************************************************************)
(* One graph through generate_function_relationships_text                  *)
(***************************************************************************)
MaxEdges == 2

\* nodes: unlabelled, quoted with a two-line label, digits before the identifier
NodePool ==
    << [name |-> <<"a">>, label |-> <<>>],
       [name |-> Quoted(<<"b">>), label |-> Quoted(<<"f", BS, "l", "x">>)],
       [name |-> <<"1", "a">>, label |-> <<>>] >>

RECURSIVE SubSequences(_)
SubSequences(s) ==
    IF s = <<>> THEN {<<>>}
    ELSE LET rest == SubSequences(Tail(s))
         IN rest \cup {<<Head(s)>> \o t : t \in rest}

\* the identifiers edges may name; "z" never has a node
EndpointIds == {<<"a">>, Quoted(<<"b">>), <<"1", "a">>, <<"z">>}

EdgeLists == UNION {[1..k -> [src : EndpointIds, dst : EndpointIds]] : k \in 0..MaxEdges}

InitExtract ==
    /\ InitIdleResolver
    /\ InitIdleMain
    /\ \E p \in {DOT_F_IC, DOT_F_C}, ns \in SubSequences(NodePool), es \in EdgeLists :
          /\ docs = [q \in {p} |-> [parses |-> TRUE, graph |-> [nodes |-> ns, edges |-> es]]]
          /\ dirs = {ROOT} \cup Ancestors(p)
    /\ fs = <<>>

\* lines 206-241 on the one document
GenerateText ==
    /\ last.op = "none"
    /\ \E p \in DOMAIN docs :
          \E r \in {generate_function_relationships_text(fs, docs[p].graph, p)} :
             /\ fs' = r.fs
             /\ relationships' = r.relationships
             /\ last' = [op |-> "generate", arg |-> p, ret |-> r.ret]
    /\ UNCHANGED <<resolverVars, docs, dirs, mainVars, runVars>>

NextExtract == GenerateText

SpecExtract == InitExtract /\ [][NextExtract]_vars

(***************************************************************************)
(* One graph at paths with and without the inverse marker                  *)
(***************************************************************************)
\* a project folder whose own name holds the marker
ICGRAPH_ROOT == << <<"out", "_icgraph">> >>

PolarityPaths ==
    { DOT_F_IC,
      DOT_F_C,
      join(join(join(ICGRAPH_ROOT, CALLER_CALLEE_DIR), DOT_FILES_DIR), <<"f", "_cgraph", DOT_EXT>>),
      join(join(join(ICGRAPH_ROOT, CALLEE_CALLER_DIR), DOT_FILES_DIR), <<"f", "_icgraph", DOT_EXT>>) }

InitPolarity ==
    /\ InitIdleResolver
    /\ InitIdleMain
    /\ \E p \in PolarityPaths, ns \in SubSequences(NodePool), es \in EdgeLists :
          /\ docs = [q \in {p} |-> [parses |-> TRUE, graph |-> [nodes |-> ns, edges |-> es]]]
          /\ dirs = Ancestors(p)
    /\ fs = <<>>

SpecPolarity == InitPolarity /\ [][NextExtract]_vars

(***************************************************************************)
(* Inputs of the NameResolver specification                                *)
(***************************************************************************)
MaxLabelParts == 4

\* a label is a run of at most MaxLabelParts of these pieces
LabelParts ==
    { <<"a">>, MARK_L, MARK_N, <<"<", "b", ">">>, <<"<", "/", "b", ">">>, <<">">>, <<QUOTE>> }

RECURSIVE Flatten(_)
Flatten(ss) == IF ss = <<>> THEN <<>> ELSE Head(ss) \o Flatten(Tail(ss))

Labels == { Flatten(ps) : ps \in UNION { [1..k -> LabelParts] : k \in 0..MaxLabelParts } }

\* node identifiers: plain, quoted, digits before the identifier, no identifier at all
NodeNames ==
    { <<"N", "1">>,
      <<QUOTE, "a", "_", "1", QUOTE>>,
      <<"1", "2", "a", "_", "-", "b">>,
      <<"1", "2">>,
      <<"-">> }

InitResolver ==
    /\ node \in [name : NodeNames, label : Labels]
    /\ named = FALSE
    /\ name = <<>>
    /\ InitIdleMain
    /\ docs = <<>>
    /\ dirs = {}
    /\ fs = <<>>

ResolveName ==
    /\ ~named
    /\ name' = extract_function_name(node)
    /\ named' = TRUE
    /\ UNCHANGED <<node, diskVars, mainVars, relationships, last, runVars>>

NextResolver == ResolveName

SpecResolver == InitResolver /\ [][NextResolver]_vars

(***************************************************************************)
(* NameResolver properties                                                 *)
(***************************************************************************)
HasMarker(s) == Contains(s, MARK_L) \/ Contains(s, MARK_N)

\* the part of s before the leftmost occurrence of either line-break marker
PrefixBeforeMarker(s) ==
    LET at == {i \in 1..(Len(s) - 1) : SubSeq(s, i, i + 1) \in {MARK_L, MARK_N}}
    IN IF at = {} THEN s ELSE SubSeq(s, 1, (CHOOSE i \in at : \A j \in at : i <= j) - 1)

HasDelimiters(s) == (\E i \in 1..Len(s) : s[i] = "<") /\ (\E i \in 1..Len(s) : s[i] = ">")

\* <<i, j, k>>: an opening tag s[i..j], a non-empty inner text s[j+1..k-1] free
\* of '<', and a closing tag that starts with "</" at k and is closed by a '>'
TagPairs(s) ==
    { p \in {i \in 1..Len(s) : s[i] = "<"} \X {j \in 1..Len(s) : s[j] = ">"}
              \X {k \in 1..(Len(s) - 1) : s[k] = "<" /\ s[k + 1] = "/"} :
        /\ p[1] < p[2]
        /\ \A t \in (p[1] + 1)..(p[2] - 1) : s[t] # ">"
        /\ p[2] + 1 < p[3]
        /\ \A t \in (p[2] + 1)..(p[3] - 1) : s[t] # "<"
        /\ \E m \in (p[3] + 2)..Len(s) : s[m] = ">" }

FirstInnerText(s) ==
    LET p == CHOOSE p \in TagPairs(s) : \A q \in TagPairs(s) : p[1] <= q[1]
    IN SubSeq(s, p[2] + 1, p[3] - 1)

\* the first maximal identifier-shaped substring of s, or s when it has none
FirstIdentifierOrSelf(s) ==
    LET spans == { r \in (1..Len(s)) \X (1..Len(s)) :
                    /\ r[1] <= r[2]
                    /\ IsIdentStart(s[r[1]])
                    /\ \A t \in r[1]..r[2] : IsIdentChar(s[t])
                    /\ (r[2] < Len(s) => ~IsIdentChar(s[r[2] + 1])) }
    IN IF spans = {}
       THEN s
       ELSE LET r == CHOOSE r \in spans : \A q \in spans : r[1] <= q[1]
            IN SubSeq(s, r[1], r[2])

\* C4: a label that contains a line-break marker is resolved from exactly its
\* prefix before the leftmost occurrence of either marker, and when the label
\* has no markup delimiters the resolved name is that prefix.
C4_Theorem ==
    named =>
        LET label == strip_quote(node.label)
        IN HasMarker(label) =>
            /\ name = html_label_name(PrefixBeforeMarker(label))
            /\ (~Contains(label, <<"<">>) /\ ~Contains(label, <<">">>) =>
                    name = PrefixBeforeMarker(label))

\* C4 witness: backslash-n comes before backslash-l and the name is the text before it
C4_Witness ==
    /\ named
    /\ node.label = <<"a">> \o MARK_N \o <<"a">> \o MARK_L
    /\ name = <<"a">>

\* C5: a node without a usable label (no label, or nothing left of it after
\* line-break trimming) resolves to the first maximal identifier-shaped
\* substring of its identifier, or to the identifier when it has none, and a
\* node with a non-empty identifier never resolves to the empty string.
C5_Claim ==
    named =>
        LET label == strip_quote(node.label)
            ident == strip_quote(node.name)
        IN /\ (label = <<>> \/ PrefixBeforeMarker(label) = <<>>) =>
                  name = FirstIdentifierOrSelf(ident)
           /\ (ident # <<>> => name # <<>>)

\* C6: a label whose trimmed candidate holds an enclosed open/close tag pair
\* resolves to the first inner text; a candidate without markup delimiters, or
\* without such a pair, is returned unchanged; trimming comes before the search.
C6_Theorem ==
    named =>
        LET label == strip_quote(node.label)
            candidate == trim_line_breaks(label)
        IN label # <<>> =>
            name = IF HasDelimiters(candidate) /\ TagPairs(candidate) # {}
                   THEN FirstInnerText(candidate)
                   ELSE candidate

\* C6 witness: "<b>a</b>" followed by a line break resolves to "a"
C6_Witness ==
    /\ named
    /\ node.label = <<"<", "b", ">", "a", "<", "/", "b", ">">> \o MARK_L
    /\ name = <<"a">>

(***************************************************************************)
(* Reading the artifacts back                                              *)
(***************************************************************************)
Range(seq) == {seq[i] : i \in 1..Len(seq)}

DigitValue(c) == CHOOSE d \in 0..9 : DigitChars[d + 1] = c

RECURSIVE ParseInt(_)
ParseInt(s) ==
    IF s = <<>> THEN 0
    ELSE 10 * ParseInt(SubSeq(s, 1, Len(s) - 1)) + DigitValue(s[Len(s)])

\* a per-file or combined listing: three header lines, a blank line, the relationships
ListedLines(text) == SubSeq(text, 5, Len(text))
StatedTotal(text) == ParseInt(DropTo(text[2], 5))

\* the per-file listings beneath a directory
ListingsBeneath(dir) ==
    {p \in DOMAIN fs :
        Beneath(p, dir) /\ endswith(basename(p), REL_SUFFIX) /\ basename(p) # COMBINED_NAME}

\* the master listing: each section starts four lines after its title and ends
\* four lines before the next title
TitleLine(text, title) == CHOOSE i \in 1..Len(text) : text[i] = title
InvertedSection(text) ==
    SubSeq(text, TitleLine(text, TITLE_CALLEE_CALLER) + 4, TitleLine(text, TITLE_CALLER_CALLEE) - 4)
ForwardSection(text) ==
    SubSeq(text, TitleLine(text, TITLE_CALLER_CALLEE) + 4, TitleLine(text, TITLE_STATISTICS) - 4)
SectionTotal(text, title) == ParseInt(DropTo(text[TitleLine(text, title) + 1], 5))
StatisticsTotal(text, k) == ParseInt(DropTo(text[TitleLine(text, TITLE_STATISTICS) + 1 + k], 5))

NoCategoryDirectory(base) ==
    join(base, CALLEE_CALLER_DIR) \notin dirs /\ join(base, CALLER_CALLEE_DIR) \notin dirs

(***************************************************************************)
(* RelationshipExtractor and RelationshipSink properties                   *)
(***************************************************************************)
NodeIds(graph) == {strip_quote(graph.nodes[i].name) : i \in 1..Len(graph.nodes)}

\* the resolved name of an identifier: its node's name, the identifier without one
ResolvedName(graph, id) ==
    IF id \in NodeIds(graph)
    THEN extract_function_name(
            graph.nodes[CHOOSE i \in 1..Len(graph.nodes) : strip_quote(graph.nodes[i].name) = id])
    ELSE id

\* C1: the relationships extraction emits are exactly, for every edge (s, d),
\* "name(s) -> name(d)" under Forward polarity and "name(d) -> name(s)" under
\* Inverted polarity; nothing else is emitted.
C1_Theorem ==
    last.op = "generate" =>
        LET graph == docs[last.arg].graph
            inverted == NameContains(basename(last.arg), "_icgraph")
        IN Range(relationships) =
            { IF inverted
              THEN Relationship(ResolvedName(graph, strip_quote(e.dst)),
                                ResolvedName(graph, strip_quote(e.src)))
              ELSE Relationship(ResolvedName(graph, strip_quote(e.src)),
                                ResolvedName(graph, strip_quote(e.dst)))
              : e \in Range(graph.edges) }

\* C1 witness: the edge a -> "b" of an inverted graph is emitted as "f -> a"
C1_Witness ==
    /\ last.op = "generate"
    /\ NameContains(basename(last.arg), "_icgraph")
    /\ docs[last.arg].graph.edges = << Edge(<<"a">>, Quoted(<<"b">>)) >>
    /\ Len(docs[last.arg].graph.nodes) = 3
    /\ relationships = << Relationship(<<"f">>, <<"a">>) >>

\* C2: the per-file listing never holds the same relationship line twice, and
\* its header counts every relationship once.
C2_Claim ==
    last.op = "generate" =>
        LET text == fs[last.ret]
            lines == ListedLines(text)
        IN /\ \A i, j \in 1..Len(lines) : i # j => lines[i] # lines[j]
           /\ StatedTotal(text) = Cardinality(Range(lines))

\* C7: every edge is emitted, an endpoint without a node under its raw
\* identifier and an endpoint with a node under the name the mapping holds.
C7_Theorem ==
    last.op = "generate" =>
        LET graph == docs[last.arg].graph
            inverted == NameContains(basename(last.arg), "_icgraph")
            mapping == create_node_to_function_mapping(graph)
            EndName(id) == IF id \in NodeIds(graph) THEN mapping[id] ELSE id
        IN /\ Len(relationships) = Len(graph.edges)
           /\ \A i \in 1..Len(graph.edges) :
                LET s == EndName(strip_quote(graph.edges[i].src))
                    d == EndName(strip_quote(graph.edges[i].dst))
                IN relationships[i] = IF inverted THEN Relationship(d, s) ELSE Relationship(s, d)

\* C7 witness: an edge between two identifiers without nodes, one of which
\* holds an identifier-shaped substring, is emitted under the raw identifiers
C7_Witness ==
    /\ last.op = "generate"
    /\ ~NameContains(basename(last.arg), "_icgraph")
    /\ docs[last.arg].graph.nodes = << NodePool[1] >>
    /\ docs[last.arg].graph.edges = << Edge(<<"1", "a">>, <<"z">>), Edge(<<"a">>, <<"z">>) >>
    /\ relationships = << Relationship(<<"1", "a">>, <<"z">>), Relationship(<<"a">>, <<"z">>) >>

(***************************************************************************)
(* Aggregator properties                                                   *)
(***************************************************************************)
\* C3: after combine ran on a category directory, the relationship lines of
\* the combined listing are exactly the union of the relationship lines of the
\* per-file listings beneath that directory.
C3_Claim ==
    (last.op = "combine" /\ last.arg \in {CC_DIR, CE_DIR}) =>
        Range(ListedLines(fs[last.ret])) =
            UNION {Range(ListedLines(fs[p])) : p \in ListingsBeneath(last.arg)}

\* C8: in the master listing the relationships of an existing category
\* directory are the lines of its combined listing when there is one, and
\* otherwise the union of the lines of the per-file listings beneath it.
C8_Claim ==
    (last.op = "master" /\ last.ret # None) =>
        LET text == fs[last.ret]
            cc == join(last.arg, CALLEE_CALLER_DIR)
            ce == join(last.arg, CALLER_CALLEE_DIR)
            Expected(category_dir) ==
                IF join(category_dir, COMBINED_NAME) \in DOMAIN fs
                THEN Range(ListedLines(fs[join(category_dir, COMBINED_NAME)]))
                ELSE UNION {Range(ListedLines(fs[p])) : p \in ListingsBeneath(category_dir)}
        IN /\ (cc \in dirs => Range(InvertedSection(text)) = Expected(cc))
           /\ (ce \in dirs => Range(ForwardSection(text)) = Expected(ce))

\* C9: a master step that finds neither category directory reports failure
\* and leaves every file on disk as it was.
C9_Theorem ==
    [][ ((Master /\ NoCategoryDirectory(directory)) \/ (MasterOnly /\ NoCategoryDirectory(ROOT)))
            => (fs' = fs /\ last'.ret = None) ]_vars

\* C9 witness: the master step failed while an earlier master listing, a
\* combined listing and a per-file listing are on disk
C9_Witness ==
    /\ last.op = "master"
    /\ last.ret = None
    /\ NoCategoryDirectory(last.arg)
    /\ join(dirname(ROOT), MASTER_NAME) \in DOMAIN fs
    /\ join(last.arg, COMBINED_NAME) \in DOMAIN fs
    /\ ListingsBeneath(last.arg) # {}

\* C10: whenever at least one category directory exists, the master listing
\* has the Inverted section before the Forward section, each stated count is
\* the number of lines of its section, an absent category gives an empty
\* section with count 0, and the grand total is the sum of the two counts.
C10_Theorem ==
    (last.op = "master" /\ last.ret # None) =>
        LET text == fs[last.ret]
            inv == InvertedSection(text)
            fwd == ForwardSection(text)
        IN /\ TitleLine(text, TITLE_CALLEE_CALLER) < TitleLine(text, TITLE_CALLER_CALLEE)
           /\ TitleLine(text, TITLE_CALLER_CALLEE) < TitleLine(text, TITLE_STATISTICS)
           /\ SectionTotal(text, TITLE_CALLEE_CALLER) = Len(inv)
           /\ SectionTotal(text, TITLE_CALLER_CALLEE) = Len(fwd)
           /\ (join(last.arg, CALLEE_CALLER_DIR) \notin dirs => inv = <<>>)
           /\ (join(last.arg, CALLER_CALLEE_DIR) \notin dirs => fwd = <<>>)
           /\ StatisticsTotal(text, 1) = Len(inv)
           /\ StatisticsTotal(text, 2) = Len(fwd)
           /\ StatisticsTotal(text, 3) = Len(inv) + Len(fwd)

\* C10 witness: only the Forward directory exists and its section is populated
C10_Witness ==
    /\ last.op = "master"
    /\ last.ret # None
    /\ join(last.arg, CALLEE_CALLER_DIR) \notin dirs
    /\ InvertedSection(fs[last.ret]) = <<>>
    /\ Len(ForwardSection(fs[last.ret])) = 2
    /\ StatisticsTotal(fs[last.ret], 3) = 2

(***************************************************************************)
(* Pipeline properties                                                     *)
(***************************************************************************)
\* C11: a run of the pipeline that repeats the run that ended just before it,
\* on unchanged documents and with the same files processed, leaves every file
\* on disk (per-file, combined and master listings) exactly as that run left it.
C11_Theorem ==
    [][ ((Master /\ RepeatsPrevious(directory, succeeded))
            \/ (MasterOnly /\ RepeatsPrevious(None, {})))
        => fs' = previous.fs ]_vars

\* C11 witness: the pipeline ran twice in a row on the project root, every
\* document was processed both times, and the per-file, combined and master
\* listings exist
C11_Witness ==
    /\ previous.times = 2
    /\ previous.directory = ROOT
    /\ previous.succeeded = DotUniverse
    /\ fs = previous.fs
    /\ join(ROOT, COMBINED_NAME) \in DOMAIN fs
    /\ join(dirname(ROOT), MASTER_NAME) \in DOMAIN fs
    /\ ListingsBeneath(ROOT) # {}

\* no line is followed by a line that sorts before it
IsAscending(lines) == \A i \in 1..(Len(lines) - 1) : ~StrLess(lines[i + 1], lines[i])

IsMasterListing(p) == basename(p) = MASTER_NAME

\* C12: in every listing on disk the relationship lines are in ascending
\* order of their characters and the stated total is the number of lines
\* below it: per-file and combined listings as a whole, the master listing
\* section by section.
C12_Theorem ==
    \A p \in DOMAIN fs :
        endswith(basename(p), REL_SUFFIX) =>
            IF IsMasterListing(p)
            THEN /\ IsAscending(InvertedSection(fs[p]))
                 /\ IsAscending(ForwardSection(fs[p]))
                 /\ SectionTotal(fs[p], TITLE_CALLEE_CALLER) = Len(InvertedSection(fs[p]))
                 /\ SectionTotal(fs[p], TITLE_CALLER_CALLEE) = Len(ForwardSection(fs[p]))
            ELSE /\ IsAscending(ListedLines(fs[p]))
                 /\ StatedTotal(fs[p]) = Len(ListedLines(fs[p]))

\* C12 witness: a graph whose edges come in descending order of their
\* relationships was listed, and a combined and a master listing over several
\* files were written
C12_Witness ==
    /\ last.op = "master"
    /\ last.ret # None
    /\ succeeded = DotUniverse
    /\ GraphOf(DOT_G_IC).edges = << Edge(N2, N1), Edge(N2, N3) >>
    /\ ListedLines(fs[relationship_file_path(DOT_G_IC)]) =
            << Relationship(<<"#", "x">>, <<"f">>), Relationship(<<"g">>, <<"f">>) >>
    /\ Len(ListedLines(fs[join(ROOT, COMBINED_NAME)])) >= 2
    /\ Len(ForwardSection(fs[last.ret])) >= 2

\* what the readers of the aggregators take from the listing of a dot file
ReadBack(dot_file) == read_relationships_from_file(fs, relationship_file_path(dot_file))

\* C13: when process_dot_file failed for some file of the batch, every other
\* file has its per-file listing, the combine step has run, and the combined
\* listing holds nothing but what the listings of the files processed in this
\* run give: the failed file contributes no relationship.
C13_Claim ==
    (last.op = "combine" /\ succeeded # dot_files) =>
        /\ last.ret \in DOMAIN fs
        /\ \A d \in succeeded : relationship_file_path(d) \in DOMAIN fs
        /\ Range(ListedLines(fs[last.ret])) \subseteq UNION {ReadBack(d) : d \in succeeded}

\* the files beneath a directory whose names end in "_relationships.txt"
ArtifactsBeneath(dir) ==
    {p \in DOMAIN fs : Beneath(p, dir) /\ endswith(basename(p), REL_SUFFIX)}

\* C14: every relationship line of a combined listing is, character for
\* character, a line of the listing of one of the dot files it unions, and every
\* line of the Inverted (Forward) section of the master listing is a line of a
\* listing of the Inverted (Forward) category directory.
C14_Claim ==
    /\ last.op = "combine" =>
            \A i \in 1..Len(ListedLines(fs[last.ret])) :
                \E d \in dot_files :
                    /\ relationship_file_path(d) \in DOMAIN fs
                    /\ ListedLines(fs[last.ret])[i] \in Range(fs[relationship_file_path(d)])
    /\ (last.op = "master" /\ last.ret # None) =>
            /\ \A line \in Range(InvertedSection(fs[last.ret])) :
                    \E p \in ArtifactsBeneath(join(last.arg, CALLEE_CALLER_DIR)) :
                        line \in Range(fs[p])
            /\ \A line \in Range(ForwardSection(fs[last.ret])) :
                    \E p \in ArtifactsBeneath(join(last.arg, CALLER_CALLEE_DIR)) :
                        line \in Range(fs[p])

\* C20: the aggregators' reader, applied to the per-file listing the sink has
\* just written, returns exactly the set of relationship strings written,
\* whatever characters the resolved names begin or end with.
C20_Claim ==
    (last.op = "process" /\ last.ret # None) =>
        ReadBack(last.arg) = Range(relationships)

\* C15: the polarity used for the extraction and stated in the header of the
\* per-file listing is Inverted exactly when the file's own name holds the
\* inverse marker, whatever the directories on its path are called.
C15_Claim ==
    last.op = "generate" =>
        LET graph == docs[last.arg].graph
            inverted == NameContains(basename(last.arg), "_icgraph")
        IN /\ fs[last.ret][3] = IF inverted THEN FORMAT_CALLEE_CALLER ELSE FORMAT_CALLER_CALLEE
           /\ Range(relationships) =
                { IF inverted
                  THEN Relationship(ResolvedName(graph, strip_quote(e.dst)),
                                    ResolvedName(graph, strip_quote(e.src)))
                  ELSE Relationship(ResolvedName(graph, strip_quote(e.src)),
                                    ResolvedName(graph, strip_quote(e.dst)))
                  : e \in Range(graph.edges) }

\* the path the combine step of the current run writes
CombinedPath == join(get_output_dir_for_combined_file(directory), COMBINED_NAME)

\* C16: when the combine step starts, the file it is about to write is not one
\* of the listings it is about to read: it neither reads a combined listing of
\* an earlier run nor overwrites a per-file listing.
C16_Claim ==
    pc = "combine" => CombinedPath \notin find_relationship_files(fs, dot_files)

\* C18: no two dot files of one scan have the same per-file listing path, and
\* when the loop over the files has ended the listing of every file processed
\* in this run holds the relationships of that file.
C18_Claim ==
    /\ \A d1, d2 \in dot_files :
            d1 # d2 => relationship_file_path(d1) # relationship_file_path(d2)
    /\ pc = "combine" =>
            \A d \in succeeded :
                fs[relationship_file_path(d)] =
                    generate_function_relationships_text(<<>>, docs[d].graph, d).fs[
                        relationship_file_path(d)]

\* where the relocation rule puts the listing of a dot file: the parent of a
\* dot_files directory, otherwise the directory of the file
SinkPath(d) ==
    LET in_dot_files == Len(d) >= 3 /\ d[Len(d) - 1] = DOT_FILES_DIR
        out_dir == IF in_dot_files THEN SubSeq(d, 1, Len(d) - 2) ELSE SubSeq(d, 1, Len(d) - 1)
        file == d[Len(d)]
    IN Append(out_dir, Append(SubSeq(file, 1, Len(file) - 1), REL_SUFFIX))

IsCategoryDir(dir) == basename(dir) \in {CALLEE_CALLER_DIR, CALLER_CALLEE_DIR}

\* a master step on base takes each category from the combined listing in the
\* category directory when that file is there
MasterReadsCombined(base) ==
    LET inv == join(join(base, CALLEE_CALLER_DIR), COMBINED_NAME)
        fwd == join(join(base, CALLER_CALLEE_DIR), COMBINED_NAME)
    IN last'.ret # None =>
        /\ inv \in DOMAIN fs =>
                Range(InvertedSection(fs'[last'.ret])) = relationships_in_text(fs[inv])
        /\ fwd \in DOMAIN fs =>
                Range(ForwardSection(fs'[last'.ret])) = relationships_in_text(fs[fwd])

C17_Step ==
    /\ \A f \in DOMAIN docs :
            (ProcessDotFile(f) /\ last'.ret # None) =>
                /\ SinkPath(f) \in DOMAIN fs'
                /\ fs'[SinkPath(f)][1] =
                        <<"#", " ", "Function call relationships from", " ">> \o basename(f)
                /\ ListedLines(fs'[SinkPath(f)]) = sorted(relationships')
    /\ Combine =>
            /\ Range(ListedLines(fs'[last'.ret])) =
                    UNION {relationships_in_text(fs[SinkPath(d)]) :
                            d \in {e \in dot_files : SinkPath(e) \in DOMAIN fs}}
            /\ IsCategoryDir(directory) => last'.ret = join(directory, COMBINED_NAME)
            /\ (basename(directory) = DOT_FILES_DIR /\ IsCategoryDir(dirname(directory))) =>
                    last'.ret = join(dirname(directory), COMBINED_NAME)
    /\ Master => MasterReadsCombined(directory)
    /\ MasterOnly => MasterReadsCombined(ROOT)

\* C17: the listing of a dot file in a dot_files directory is written in the
\* parent of that directory and otherwise next to the file; the combine step
\* reads each listing at that same place; combine run on a category directory
\* or on its dot_files subdirectory writes the combined listing in the category
\* directory, at the path the master step reads.
C17_Theorem == [][C17_Step]_vars

\* C17 witness: main ran on the dot_files subdirectory of the Forward
\* category, the listing and the combined listing are in the category
\* directory, and a master step on the project has read the combined listing
C17_Witness ==
    /\ last.op = "master"
    /\ last.arg = ROOT
    /\ last.ret # None
    /\ directory = CE_DOT_FILES
    /\ succeeded = {DOT_F_C}
    /\ previous.directory = None
    /\ join(CE_DIR, <<"f", "_cgraph", REL_SUFFIX>>) \in DOMAIN fs
    /\ join(CE_DIR, COMBINED_NAME) \in DOMAIN fs
    /\ ForwardSection(fs[last.ret]) = << Relationship(<<"f">>, <<"g">>) >>

\* what the readers take from the per-file listings beneath a directory
ReadBeneath(dir) == UNION {relationships_in_text(fs[p]) : p \in ListingsBeneath(dir)}

\* C19: right after a successful master step, the section of each category
\* directory that exists holds exactly the relationships of the per-file
\* listings that are beneath that directory at that moment, whatever combined
\* listing earlier runs left there.
C19_Claim ==
    (last.op = "master" /\ last.ret # None) =>
        LET cc == join(last.arg, CALLEE_CALLER_DIR)
            ce == join(last.arg, CALLER_CALLEE_DIR)
        IN /\ (cc \in dirs => Range(InvertedSection(fs[last.ret])) = ReadBeneath(cc))
           /\ (ce \in dirs => Range(ForwardSection(fs[last.ret])) = ReadBeneath(ce))

\* the format descriptor of a listing: the third line of its header
FormatLine(text) == text[3]

\* C21: right after the combine step, the format descriptor in the header of
\* the combined listing is the format descriptor in the header of the per-file
\* listing of every dot file it unions, whatever directory main() ran on.
C21_Claim ==
    (last.op = "combine" /\ last.ret # None) =>
        \A p \in find_relationship_files(fs, dot_files) :
            p # last.ret => FormatLine(fs[p]) = FormatLine(fs[last.ret])

====
